---- MODULE Spec2Model ----
(***************************************************************************)
(* Contact form controller of script.js (initContactForm): field           *)
(* validation, the submit handler, the fetch promise chain and the         *)
(* success-message timer, as a state machine over the DOM state the        *)
(* handlers read and write.                                                 *)
(*                                                                         *)
(* Strings are sequences of one-character strings.  The generated          *)
(* timestamp and the constant _subject prefix of the request body carry no *)
(* state and are left out of the payload record.                           *)
(***************************************************************************)
EXTENDS Integers, Sequences, FiniteSets, TLC

\* ---------------------------------------------------------------- bounds
MaxLen == 3          \* longest string drawn by the validation specification
MaxSubmits == 2      \* valid submissions (requests issued) per behaviour

Chars == {" ", "a", "@"}

RECURSIVE StringsUpTo(_)
StringsUpTo(n) ==
  IF n = 0 THEN {<<>>}
  ELSE LET S == StringsUpTo(n - 1)
       IN  S \cup {Append(s, c) : s \in {t \in S : Len(t) = n - 1}, c \in Chars}

Strings == StringsUpTo(MaxLen)

\* values a user enters into each control in the state machine specification:
\* an empty, a blank and a padded value for the name, an empty, an '@'-less
\* and a padded valid value for the email, an empty and a non-empty value
\* (padded for the controls that are not required) elsewhere
typed(f) ==
  CASE f = "cname" -> {<<>>, <<" ">>, <<"a", " ">>}
    [] f = "cemail" -> {<<>>, <<"a">>, <<" ", "a", "@">>}
    [] f = "cdesc" -> {<<>>, <<"a">>}
    [] OTHER -> {<<>>, <<" ", "a">>}

\* ------------------------------------------------------- string functions
IsSpace(c) == c = " "

\* String.prototype.trim
RECURSIVE trimStart(_)
trimStart(s) ==
  IF s # <<>> /\ IsSpace(Head(s)) THEN trimStart(Tail(s)) ELSE s

RECURSIVE trimEnd(_)
trimEnd(s) ==
  IF s # <<>> /\ IsSpace(s[Len(s)]) THEN trimEnd(SubSeq(s, 1, Len(s) - 1)) ELSE s

trim(s) == trimEnd(trimStart(s))

\* String.prototype.includes, for a one-character needle
includes(s, c) == \E i \in 1..Len(s) : s[i] = c

\* JavaScript truthiness of a string
Truthy(s) == s # <<>>

\* ------------------------------------------------------------ DOM contract
\* ids of the form controls the submit handler reads, in document order
FieldIds == <<"cname", "cemail", "cbusiness", "cdesc", "cbudget">>
Ids == {FieldIds[i] : i \in 1..Len(FieldIds)}

\* qsa('[required]', form): the required controls, in document order
required == <<"cname", "cemail", "cdesc">>
Required == {required[i] : i \in 1..Len(required)}

\* field.type
type(f) ==
  CASE f = "cemail" -> "email"
    [] f = "cdesc" -> "textarea"
    [] f = "cbudget" -> "select-one"
    [] OTHER -> "text"

\* value each control has at page load and after form.reset()
defaultValue(f) == <<>>

\* content of the submit control at page load (btnSnapshot)
btnSnapshot == "Request consultation"
Pending == "Sending"

RejectionAlert == "Something went wrong. Please try again or email us directly at info@grandriverdigital.ca"
NetworkAlert == "Network error. Please check your connection and try again."
NoAlert == "none"

VARIABLES
  field,         \* id -> [value, isError, ariaInvalid]
  focus,         \* the required field that has focus, or "other"
  submitBtn,     \* [disabled, content]
  successHidden, \* successEl.hidden
  timers,        \* pending auto-hide timers, oldest first (id of the request that set it)
  req,           \* request number -> [st, body, runs]
  fetchCount,    \* number of fetch calls made
  validSubmits,  \* number of submit events that passed validation
  last,          \* the last event handled
  nav            \* mobile navigation: [navOpen, toggleOpen, ariaExpanded, ariaLabel, overflow]

vars == <<field, focus, submitBtn, successHidden, timers, req, fetchCount,
          validSubmits, last, nav>>

\* ------------------------------------------------------------------ events
\* last: the listener or callback that ran (ev), the control a blur was about
\* or an aborted submit focused (fld), what validation returned (ret), whether
\* the control of a blur or input was flagged before (pre), the request it was about (rid), the response body it was
\* given (body) and the alert it showed (alert)
NoBody == [valid |-> FALSE, data |-> [t |-> "none", ok |-> "absent"]]

Ev(ev, fld, ret, pre, rid, body, alert) ==
  [ev |-> ev, fld |-> fld, ret |-> ret, pre |-> pre, rid |-> rid, body |-> body,
   alert |-> alert]

\* ------------------------------------------------------------ the response
\* JSON values a response body can denote: null, a non-object (a number) and
\* objects whose ok member is absent, true, false, 1 or 0
OkValues == {"absent", "true", "false", "1", "0"}
JsonValues ==
  {[t |-> "null", ok |-> "absent"], [t |-> "number", ok |-> "absent"]}
    \cup {[t |-> "object", ok |-> o] : o \in OkValues}

\* response bodies: JSON text of a value, or text that is not JSON
NotJson == [valid |-> FALSE, data |-> [t |-> "text", ok |-> "absent"]]
Bodies == {[valid |-> TRUE, data |-> j] : j \in JsonValues} \cup {NotJson}

\* res.json(): resolves with the parsed value, rejects on text that is not JSON
json(body) == [rejected |-> ~body.valid, data |-> body.data]

\* data.ok: a TypeError on null, undefined on a value without the member
getOk(data) ==
  IF data.t = "null" THEN "TypeError"
  ELSE IF data.t = "object" /\ data.ok # "absent" THEN data.ok
  ELSE "undefined"

\* JavaScript truthiness of the ok member
truthyOk(v) == v \in {"true", "1"}

\* ----------------------------------------------------------------- helpers
\* variant: the control is enabled again but keeps the pending text
setSubmittingKeepsText(on) ==
  IF on THEN [disabled |-> TRUE, content |-> Pending]
  ELSE [disabled |-> FALSE, content |-> Pending]

\* variant: the pending text is shown but the control stays enabled
setSubmittingStaysEnabled(on) ==
  IF on THEN [disabled |-> FALSE, content |-> Pending]
  ELSE [disabled |-> FALSE, content |-> btnSnapshot]

setSubmitting(on) ==
  IF on THEN [disabled |-> TRUE, content |-> Pending]
  ELSE [disabled |-> FALSE, content |-> btnSnapshot]

clearError(fl) == [fl EXCEPT !.isError = FALSE, !.ariaInvalid = FALSE]

\* variant: the emptiness test without trim()
validateFieldNoTrim(fl, ty) ==
  LET empty == ~Truthy(fl.value)
      badEmail == ty = "email" /\ Truthy(fl.value) /\ ~includes(fl.value, "@")
  IN  IF empty \/ badEmail
      THEN [field |-> [fl EXCEPT !.isError = TRUE, !.ariaInvalid = TRUE], ret |-> FALSE]
      ELSE [field |-> clearError(fl), ret |-> TRUE]

\* variant: a valid value returns true without clearError(field)
validateFieldKeepsFlag(fl, ty) ==
  LET empty == ~Truthy(trim(fl.value))
      badEmail == ty = "email" /\ Truthy(fl.value) /\ ~includes(fl.value, "@")
  IN  IF empty \/ badEmail
      THEN [field |-> [fl EXCEPT !.isError = TRUE, !.ariaInvalid = TRUE], ret |-> FALSE]
      ELSE [field |-> fl, ret |-> TRUE]

validateField(fl, ty) ==
  LET empty == ~Truthy(trim(fl.value))
      badEmail == ty = "email" /\ Truthy(fl.value) /\ ~includes(fl.value, "@")
  IN  IF empty \/ badEmail
      THEN [field |-> [fl EXCEPT !.isError = TRUE, !.ariaInvalid = TRUE], ret |-> FALSE]
      ELSE [field |-> clearError(fl), ret |-> TRUE]

\* let valid = true; required.forEach(field => { if (!validateField(field)) valid = false; })
\* variant: the loop stops at the first control that fails
validateAllShortCircuit(fs) ==
  LET bad == {i \in 1..Len(required) : ~validateField(fs[required[i]], type(required[i])).ret}
      stop == IF bad = {} THEN Len(required) ELSE CHOOSE i \in bad : \A j \in bad : i <= j
      seen == {required[i] : i \in 1..stop}
  IN  [fields |-> [f \in Ids |->
                     IF f \in seen THEN validateField(fs[f], type(f)).field ELSE fs[f]],
       valid  |-> bad = {}]

\* variant: a failing control does not set valid to false
validateAllKeepsValid(fs) ==
  [fields |-> [f \in Ids |->
                 IF f \in Required THEN validateField(fs[f], type(f)).field ELSE fs[f]],
   valid  |-> TRUE]

validateAll(fs) ==
  [fields |-> [f \in Ids |->
                 IF f \in Required THEN validateField(fs[f], type(f)).field ELSE fs[f]],
   valid  |-> \A f \in Required : validateField(fs[f], type(f)).ret]

\* form.reset(): every control back to its default value
reset(fs) == [f \in Ids |-> [fs[f] EXCEPT !.value = defaultValue(f)]]

\* variant: the flags are left as they are
clearNone(fs) == fs

\* required.forEach(f => clearError(f))
clearAll(fs) == [f \in Ids |-> IF f \in Required THEN clearError(fs[f]) ELSE fs[f]]

\* required.find(f => f.classList.contains('is-error'))
\* variant: the last flagged control instead of the first
findLast(fs) ==
  LET hit == {i \in 1..Len(required) : fs[required[i]].isError}
  IN  IF hit = {} THEN "none"
      ELSE required[CHOOSE i \in hit : \A j \in hit : i >= j]

find(fs) ==
  LET hit == {i \in 1..Len(required) : fs[required[i]].isError}
  IN  IF hit = {} THEN "none"
      ELSE required[CHOOSE i \in hit : \A j \in hit : i <= j]

\* the object built from the controls' values and handed to JSON.stringify
formData(fs) ==
  [name        |-> trim(fs["cname"].value),
   email       |-> trim(fs["cemail"].value),
   business    |-> trim(fs["cbusiness"].value),
   description |-> trim(fs["cdesc"].value),
   budget      |-> fs["cbudget"].value,
   replyto     |-> trim(fs["cemail"].value)]

NoPayload ==
  [name |-> <<>>, email |-> <<>>, business |-> <<>>, description |-> <<>>,
   budget |-> <<>>, replyto |-> <<>>]

Unsent == [st |-> "unsent", body |-> NoPayload, runs |-> 0]

\* -------------------------------------------------------- mobile navigation
OpenLabel == "Open navigation menu"
CloseLabel == "Close navigation menu"

\* const open = () => { ... }
open(n) ==
  [n EXCEPT !.navOpen = TRUE, !.toggleOpen = TRUE, !.ariaExpanded = "true",
            !.ariaLabel = CloseLabel, !.overflow = "hidden"]

\* const close = () => { ... }
close(n) ==
  [n EXCEPT !.navOpen = FALSE, !.toggleOpen = FALSE, !.ariaExpanded = "false",
            !.ariaLabel = OpenLabel, !.overflow = ""]

\* the navigation as the page loads it: closed, as close() leaves it
NavClosed ==
  [navOpen |-> FALSE, toggleOpen |-> FALSE, ariaExpanded |-> "false",
   ariaLabel |-> OpenLabel, overflow |-> ""]

\* where a click lands: the toggle, a link of the nav, the nav outside its
\* links, or anywhere else in the document
Targets == {"toggle", "link", "nav", "outside"}
Keys == {"Escape", "Tab"}

\* nav.contains(e.target) and toggle.contains(e.target); the toggle sits
\* outside the nav element
navContains(t) == t \in {"link", "nav"}
toggleContains(t) == t = "toggle"

\* click listener of the toggle
toggleClick(n) == IF n.navOpen THEN close(n) ELSE open(n)

\* variant: the document listener does not exempt clicks on the toggle
documentClickClosesOnToggle(n, t) ==
  IF n.navOpen /\ ~navContains(t) THEN close(n) ELSE n

\* click listener of the document
documentClick(n, t) ==
  IF n.navOpen /\ ~navContains(t) /\ ~toggleContains(t) THEN close(n) ELSE n

\* keydown listener of the document
keydown(n, key) == IF key = "Escape" /\ n.navOpen THEN close(n) ELSE n

\* ------------------------------------------------------------------- state
InitField(f) == [value |-> defaultValue(f), isError |-> FALSE, ariaInvalid |-> FALSE]

Init ==
  /\ field = [f \in Ids |-> InitField(f)]
  /\ focus = "other"
  /\ submitBtn = [disabled |-> FALSE, content |-> btnSnapshot]
  /\ successHidden = TRUE
  /\ timers = <<>>
  /\ req = [r \in 1..MaxSubmits |-> Unsent]
  /\ fetchCount = 0
  /\ validSubmits = 0
  /\ last = Ev("load", "none", TRUE, FALSE, 0, NoBody, NoAlert)
  /\ nav = NavClosed

\* the user moves focus into a required control (no listener is registered)
UserFocus(f) ==
  /\ focus = "other"
  /\ focus' = f
  /\ last' = Ev("focus", "none", TRUE, FALSE, 0, NoBody, NoAlert)
  /\ UNCHANGED <<nav, field, submitBtn, successHidden, timers, req, fetchCount,
                 validSubmits>>

\* variant: no input listener, the flags stay until the next validation
InputKeepsFlag(f, v) ==
  /\ v # field[f].value
  /\ field' = [field EXCEPT ![f] = [@ EXCEPT !.value = v]]
  /\ last' = Ev("input", "none", TRUE, field[f].isError, 0, NoBody, NoAlert)
  /\ UNCHANGED <<nav, focus, submitBtn, successHidden, timers, req, fetchCount,
                 validSubmits>>

\* variant: the input listener validates the control instead of clearing it
InputValidates(f, v) ==
  /\ v # field[f].value
  /\ field' = [field EXCEPT ![f] =
                 IF f \in Required
                 THEN validateField([@ EXCEPT !.value = v], type(f)).field
                 ELSE [@ EXCEPT !.value = v]]
  /\ last' = Ev("input", "none", TRUE, field[f].isError, 0, NoBody, NoAlert)
  /\ UNCHANGED <<nav, focus, submitBtn, successHidden, timers, req, fetchCount,
                 validSubmits>>

\* 'input' listener of a required control: clearError(field).  The value has
\* already changed when the listener runs; other controls have no listener.
Input(f, v) ==
  /\ v # field[f].value
  /\ field' = [field EXCEPT ![f] =
                 IF f \in Required THEN clearError([@ EXCEPT !.value = v])
                 ELSE [@ EXCEPT !.value = v]]
  /\ last' = Ev("input", "none", TRUE, field[f].isError, 0, NoBody, NoAlert)
  /\ UNCHANGED <<nav, focus, submitBtn, successHidden, timers, req, fetchCount,
                 validSubmits>>

\* 'blur' listener of a required control: validateField(field)
Blur(f) ==
  /\ focus = f
  /\ focus' = "other"
  /\ field' = [field EXCEPT ![f] = validateField(@, type(f)).field]
  /\ last' = Ev("blur", f, validateField(field[f], type(f)).ret,
                field[f].isError, 0, NoBody, NoAlert)
  /\ UNCHANGED <<nav, submitBtn, successHidden, timers, req, fetchCount,
                 validSubmits>>

\* 'submit' listener of the form.  The browser delivers the event only while
\* the submit control is enabled.  first.focus() blurs the control that had
\* focus; its blur listener revalidates a value the loop has just validated.
Submit ==
  /\ ~submitBtn.disabled
  /\ LET checked == validateAll(field).fields
         valid == validateAll(field).valid
         first == find(checked)
         n == fetchCount + 1
     IN  IF ~valid
         THEN /\ field' = checked
              /\ focus' = IF first # "none" THEN first ELSE focus
              /\ last' = Ev("submit", first, FALSE, FALSE, 0, NoBody, NoAlert)
              /\ UNCHANGED <<nav, submitBtn, successHidden, timers, req, fetchCount,
                             validSubmits>>
         ELSE /\ fetchCount < MaxSubmits
              /\ field' = checked
              /\ submitBtn' = setSubmitting(TRUE)
              /\ req' = [req EXCEPT ![n] =
                           [st |-> "fetching", body |-> formData(checked), runs |-> 0]]
              /\ fetchCount' = n
              /\ validSubmits' = validSubmits + 1
              /\ last' = Ev("submit", "none", TRUE, FALSE, n, NoBody, NoAlert)
              /\ UNCHANGED <<nav, focus, successHidden, timers>>

\* fetch resolves with a response: .then(res => res.json()) starts reading it
Respond(r) ==
  /\ req[r].st = "fetching"
  /\ req' = [req EXCEPT ![r].st = "reading"]
  /\ last' = Ev("response", "none", TRUE, FALSE, r, NoBody, NoAlert)
  /\ UNCHANGED <<nav, field, focus, submitBtn, successHidden, timers, fetchCount,
                 validSubmits>>

\* a branch of the outcome handling has run for request r
Done(r) ==
  [req EXCEPT ![r] = [st |-> "done", body |-> NoPayload, runs |-> @.runs + 1]]

\* variant: the success branch cancels the timers set before its own
SuccessCancelsEarlier(r, body) ==
  /\ field' = clearAll(reset(field))
  /\ submitBtn' = setSubmitting(FALSE)
  /\ successHidden' = FALSE
  /\ timers' = <<r>>
  /\ req' = Done(r)
  /\ last' = Ev("success", "none", TRUE, FALSE, r, body, NoAlert)
  /\ UNCHANGED <<nav, focus, fetchCount, validSubmits>>

\* variant: the success branch sets no timer
SuccessSetsNoTimer(r, body) ==
  /\ field' = clearAll(reset(field))
  /\ submitBtn' = setSubmitting(FALSE)
  /\ successHidden' = FALSE
  /\ req' = Done(r)
  /\ last' = Ev("success", "none", TRUE, FALSE, r, body, NoAlert)
  /\ UNCHANGED <<nav, focus, timers, fetchCount, validSubmits>>

\* if (data.ok) { ... }
Success(r, body) ==
  /\ field' = clearAll(reset(field))
  /\ submitBtn' = setSubmitting(FALSE)
  /\ successHidden' = FALSE
  /\ timers' = Append(timers, r)
  /\ req' = Done(r)
  /\ last' = Ev("success", "none", TRUE, FALSE, r, body, NoAlert)
  /\ UNCHANGED <<nav, focus, fetchCount, validSubmits>>

\* variant: the rejection branch also resets the form
RejectionResets(r, body) ==
  /\ field' = clearAll(reset(field))
  /\ submitBtn' = setSubmitting(FALSE)
  /\ req' = Done(r)
  /\ last' = Ev("rejection", "none", TRUE, FALSE, r, body, RejectionAlert)
  /\ UNCHANGED <<nav, focus, successHidden, timers, fetchCount, validSubmits>>

\* else { ... }
Rejection(r, body) ==
  /\ submitBtn' = setSubmitting(FALSE)
  /\ req' = Done(r)
  /\ last' = Ev("rejection", "none", TRUE, FALSE, r, body, RejectionAlert)
  /\ UNCHANGED <<nav, field, focus, successHidden, timers, fetchCount, validSubmits>>

\* variant: the catch handler also hides the success message
FailureHidesMessage(r, body) ==
  /\ submitBtn' = setSubmitting(FALSE)
  /\ successHidden' = TRUE
  /\ req' = Done(r)
  /\ last' = Ev("failure", "none", TRUE, FALSE, r, body, NetworkAlert)
  /\ UNCHANGED <<nav, field, focus, timers, fetchCount, validSubmits>>

\* variant: the catch handler shows the alert of the rejection branch
FailureSameAlert(r, body) ==
  /\ submitBtn' = setSubmitting(FALSE)
  /\ req' = Done(r)
  /\ last' = Ev("failure", "none", TRUE, FALSE, r, body, RejectionAlert)
  /\ UNCHANGED <<nav, field, focus, successHidden, timers, fetchCount, validSubmits>>

\* variant: the catch handler sends the request again
FailureRetries(r, body) ==
  /\ submitBtn' = setSubmitting(FALSE)
  /\ req' = [req EXCEPT ![r] = [@ EXCEPT !.st = "fetching", !.runs = @ + 1]]
  /\ fetchCount' = fetchCount + 1
  /\ last' = Ev("failure", "none", TRUE, FALSE, r, body, NetworkAlert)
  /\ UNCHANGED <<nav, field, focus, successHidden, timers, validSubmits>>

\* .catch(() => { ... })
Failure(r, body) ==
  /\ submitBtn' = setSubmitting(FALSE)
  /\ req' = Done(r)
  /\ last' = Ev("failure", "none", TRUE, FALSE, r, body, NetworkAlert)
  /\ UNCHANGED <<nav, field, focus, successHidden, timers, fetchCount, validSubmits>>

\* variant: the success branch ends by throwing, so the catch handler runs
\* after it for the same request
SettleRethrows(r, body) ==
  /\ req[r].st = "reading"
  /\ LET j == json(body)
         ok == getOk(j.data)
     IN  IF j.rejected \/ ok = "TypeError" THEN Failure(r, body)
         ELSE IF truthyOk(ok)
         THEN /\ field' = clearAll(reset(field))
              /\ submitBtn' = setSubmitting(FALSE)
              /\ successHidden' = FALSE
              /\ timers' = Append(timers, r)
              /\ req' = [req EXCEPT ![r] =
                           [st |-> "done", body |-> NoPayload, runs |-> @.runs + 2]]
              /\ last' = Ev("failure", "none", TRUE, FALSE, r, body, NetworkAlert)
              /\ UNCHANGED <<nav, focus, fetchCount, validSubmits>>
         ELSE Rejection(r, body)

\* the body has been read: res.json() settles and the rest of the chain runs
\* in consecutive microtasks, so no other event interleaves
Settle(r, body) ==
  /\ req[r].st = "reading"
  /\ LET j == json(body)
         ok == getOk(j.data)
     IN  IF j.rejected \/ ok = "TypeError" THEN Failure(r, body)
         ELSE IF truthyOk(ok) THEN Success(r, body)
         ELSE Rejection(r, body)

\* the request itself fails: fetch rejects, or reading the body fails
NetError(r) ==
  /\ req[r].st \in {"fetching", "reading"}
  /\ Failure(r, NoBody)

\* setTimeout(() => { successEl.hidden = true; }, 8000): equal delays fire in
\* the order they were set
TimerFires ==
  /\ timers # <<>>
  /\ successHidden' = TRUE
  /\ timers' = Tail(timers)
  /\ last' = Ev("timer", "none", TRUE, FALSE, Head(timers), NoBody, NoAlert)
  /\ UNCHANGED <<nav, field, focus, submitBtn, req, fetchCount, validSubmits>>

Next ==
  \/ \E f \in Required : UserFocus(f)
  \/ \E f \in Ids : \E v \in typed(f) : Input(f, v)
  \/ \E f \in Required : Blur(f)
  \/ Submit
  \/ \E r \in 1..MaxSubmits : Respond(r)
  \/ \E r \in 1..MaxSubmits, b \in Bodies : Settle(r, b)
  \/ \E r \in 1..MaxSubmits : NetError(r)
  \/ TimerFires

Spec == Init /\ [][Next]_vars

\* the events of Next without input to the controls that are not required:
\* those have no listener and only feed the payload
NextRequired ==
  \/ \E f \in Required : UserFocus(f)
  \/ \E f \in Required : \E v \in typed(f) : Input(f, v)
  \/ \E f \in Required : Blur(f)
  \/ Submit
  \/ \E r \in 1..MaxSubmits : Respond(r)
  \/ \E r \in 1..MaxSubmits, b \in Bodies : Settle(r, b)
  \/ \E r \in 1..MaxSubmits : NetError(r)
  \/ TimerFires

\* the runtime runs every timer callback that is due
SpecTimers == Init /\ [][NextRequired]_vars /\ WF_vars(TimerFires)

\* every request issued completes: the response arrives and its body is read
SpecCompletes ==
  /\ Init
  /\ [][NextRequired]_vars
  /\ WF_vars(\E r \in 1..MaxSubmits : Respond(r))
  /\ WF_vars(\E r \in 1..MaxSubmits, b \in Bodies : Settle(r, b))

\* ------------------------------------------------- navigation and controls
\* a click: the listener of the element it lands on runs first, then the
\* event bubbles to the document listener
Click(t) ==
  /\ nav' = documentClick(IF t = "toggle" THEN toggleClick(nav)
                          ELSE IF t = "link" THEN close(nav)
                          ELSE nav, t)
  /\ last' = Ev("click", t, TRUE, nav.navOpen, 0, NoBody, NoAlert)
  /\ UNCHANGED <<field, focus, submitBtn, successHidden, timers, req, fetchCount,
                 validSubmits>>

KeyDown(key) ==
  /\ nav' = keydown(nav, key)
  /\ last' = Ev("keydown", key, TRUE, nav.navOpen, 0, NoBody, NoAlert)
  /\ UNCHANGED <<field, focus, submitBtn, successHidden, timers, req, fetchCount,
                 validSubmits>>

\* the navigation listeners together with the listeners of the required
\* controls, which share the page; the form listeners never write nav and
\* the navigation listeners never write the form
NextNav ==
  \/ \E t \in Targets : Click(t)
  \/ \E key \in Keys : KeyDown(key)
  \/ \E f \in Required : UserFocus(f)
  \/ \E f \in Required : \E v \in typed(f) : Input(f, v)
  \/ \E f \in Required : Blur(f)

SpecNav == Init /\ [][NextNav]_vars

\* ------------------------------------------- validateField on any string
\* one required control holds any string up to MaxLen, flagged or not
InitValidate ==
  /\ \E f \in Required, s \in Strings, e \in BOOLEAN :
       /\ field = [g \in Ids |->
                     IF g = f THEN [value |-> s, isError |-> e, ariaInvalid |-> e]
                     ELSE InitField(g)]
       /\ focus = f
  /\ submitBtn = [disabled |-> FALSE, content |-> btnSnapshot]
  /\ successHidden = TRUE
  /\ timers = <<>>
  /\ req = [r \in 1..MaxSubmits |-> Unsent]
  /\ fetchCount = 0
  /\ validSubmits = 0
  /\ last = Ev("load", "none", TRUE, FALSE, 0, NoBody, NoAlert)
  /\ nav = NavClosed

NextValidate ==
  \/ \E f \in Required : UserFocus(f)
  \/ \E f \in Required : Blur(f)

SpecValidate == InitValidate /\ [][NextValidate]_vars

\* ================================================================ properties
\* a value fails validation: it is empty once trimmed, or it belongs to an
\* email control, is not empty and has no '@'
Fails(ty, v) ==
  \/ Len(trim(v)) = 0
  \/ ty = "email" /\ Len(v) > 0 /\ ~(\E i \in 1..Len(v) : v[i] = "@")

FailsIn(fs, f) == Fails(type(f), fs[f].value)

AnyInvalid(fs) == \E f \in Required : FailsIn(fs, f)

\* the first required control, in document order, whose value fails
FirstInvalid(fs) ==
  required[CHOOSE i \in 1..Len(required) :
             /\ FailsIn(fs, required[i])
             /\ \A j \in 1..(i - 1) : ~FailsIn(fs, required[j])]

\* C1: validateField returns false exactly when the trimmed value is empty or
\* the control is an email control whose non-empty value has no '@'; it
\* returns true in every other case.
C1_ValidateFieldReturn ==
  last.ev = "blur" => (last.ret = FALSE <=> FailsIn(field, last.fld))

\* an email control holding a non-blank value without '@' was rejected
C1_Witness ==
  /\ last.ev = "blur"
  /\ type(last.fld) = "email"
  /\ Len(trim(field[last.fld].value)) > 0
  /\ ~last.ret

\* C2: validateField on a valid value leaves the control without error class
\* and without aria-invalid whatever its flags were before, and a second call
\* on the same value changes nothing.
C2_ValidClearsIndicator ==
  (last.ev = "blur" /\ ~FailsIn(field, last.fld)) =>
    LET f == last.fld
    IN  /\ ~field[f].isError
        /\ ~field[f].ariaInvalid
        /\ validateField(field[f], type(f)) = [field |-> field[f], ret |-> TRUE]

\* a control that was flagged before the call holds a valid value after it
C2_Witness ==
  /\ last.ev = "blur"
  /\ last.pre
  /\ ~FailsIn(field, last.fld)

\* C3: a submit event validates every required control: afterwards a required
\* control is flagged exactly when its value fails, and the handler takes the
\* valid path exactly when no required value fails.
C3_SubmitValidatesAll ==
  last.ev = "submit" =>
    /\ \A f \in Required :
         /\ field[f].isError = FailsIn(field, f)
         /\ field[f].ariaInvalid = FailsIn(field, f)
    /\ last.ret <=> ~AnyInvalid(field)

\* a submit found the first and the last required control invalid and the one
\* between them valid, and flagged both
C3_Witness ==
  /\ last.ev = "submit"
  /\ field["cname"].isError
  /\ ~field["cemail"].isError
  /\ field["cdesc"].isError

\* C4: a submit event that finds an invalid required control moves focus to
\* the first such control in document order; a submit event that finds none
\* leaves focus where it was.
C4_FocusFirstInvalid ==
  [][last'.ev = "submit" =>
       IF AnyInvalid(field) THEN focus' = FirstInvalid(field) ELSE focus' = focus]_vars

\* focus went to the second required control while the third was invalid too
C4_Witness ==
  /\ last.ev = "submit"
  /\ ~FailsIn(field, "cname")
  /\ FailsIn(field, "cemail")
  /\ FailsIn(field, "cdesc")
  /\ focus = "cemail"

\* C5: a submit event with an invalid required control issues no request,
\* leaves the submit control enabled with its original content, changes no
\* control's value, shows no alert and does not reveal the success message.
C5_InvalidSubmitAborted ==
  [][(last'.ev = "submit" /\ AnyInvalid(field)) =>
       /\ fetchCount' = fetchCount
       /\ req' = req
       /\ submitBtn' = submitBtn
       /\ submitBtn' = [disabled |-> FALSE, content |-> btnSnapshot]
       /\ \A f \in Ids : field'[f].value = field[f].value
       /\ last'.alert = NoAlert
       /\ successHidden' = successHidden
       /\ timers' = timers]_vars

\* an aborted submit after an earlier request, with the entered values kept
C5_Witness ==
  /\ last.ev = "submit"
  /\ ~last.ret
  /\ fetchCount > 0
  /\ field["cbusiness"].value # <<>>
  /\ field["cemail"].value # <<>>

Requests == 1..MaxSubmits
InFlight(r) == req[r].st \in {"fetching", "reading"}
Outcomes == {"success", "rejection", "failure"}

\* C6: the number of requests issued equals the number of submit events that
\* passed validation: a submit event whose required values all pass issues
\* exactly one request, and no other event issues any.
C6_OneRequestPerValidSubmit ==
  /\ [](/\ fetchCount = validSubmits
        /\ Cardinality({r \in Requests : req[r].st # "unsent"}) = fetchCount)
  /\ [][/\ (last'.ev = "submit" /\ ~AnyInvalid(field)) => fetchCount' = fetchCount + 1
        /\ (last'.ev = "submit" /\ AnyInvalid(field)) => fetchCount' = fetchCount
        /\ last'.ev # "submit" => fetchCount' = fetchCount]_vars

\* two valid submits, two requests, the last one ended by the failure branch
C6_Witness ==
  /\ validSubmits = 2
  /\ fetchCount = 2
  /\ req[1].st = "done"
  /\ req[2].st = "done"
  /\ last.ev = "failure"

\* the payload the claim expects for the controls' values fs
TrimmedPayload(fs) ==
  [name        |-> trim(fs["cname"].value),
   email       |-> trim(fs["cemail"].value),
   business    |-> trim(fs["cbusiness"].value),
   description |-> trim(fs["cdesc"].value),
   budget      |-> trim(fs["cbudget"].value),
   replyto     |-> trim(fs["cemail"].value)]

\* C7: in the payload of a valid submit each of name, email, business,
\* description and budget equals the control's trimmed value, _replyto equals
\* the trimmed email, and edits made while the request is in flight do not
\* change the payload.
C7_PayloadTrimmedSnapshot ==
  /\ []((last.ev = "submit" /\ last.ret) => req[last.rid].body = TrimmedPayload(field))
  /\ [][\A r \in Requests :
          (InFlight(r) /\ req'[r].st \in {"fetching", "reading"})
            => req'[r].body = req[r].body]_vars

\* C8: outcome handling runs exactly once for a request that completes: one
\* branch, one time, and none before completion.
C8_OutcomeRunsOnce ==
  \A r \in Requests :
    /\ req[r].runs <= 1
    /\ req[r].st = "done" <=> req[r].runs = 1

\* the then-handler threw on a null body before either of its branches ran,
\* and the failure branch ran once
C8_Witness ==
  /\ last.ev = "failure"
  /\ last.body.valid
  /\ last.body.data.t = "null"
  /\ req[last.rid].st = "done"
  /\ req[last.rid].runs = 1

\* the response body is a JSON object whose ok member is true
OkTrueObject(b) == b.valid /\ b.data.t = "object" /\ b.data.ok = "true"

\* C9: when the remote responds, every body other than a JSON object whose ok
\* member is true is handled by the rejection branch.
C9_OtherBodiesRejected ==
  (last.ev \in Outcomes /\ last.body # NoBody /\ ~OkTrueObject(last.body))
    => (last.ev = "rejection" /\ last.alert = RejectionAlert)

\* C10: after the success branch every control is empty, no required control
\* is flagged, the submit control is enabled with its original content and
\* the success message is visible.
C10_SuccessResetsForm ==
  last.ev = "success" =>
    /\ \A f \in Ids : field[f].value = <<>>
    /\ \A f \in Required : ~field[f].isError /\ ~field[f].ariaInvalid
    /\ submitBtn = [disabled |-> FALSE, content |-> btnSnapshot]
    /\ ~successHidden

\* the second request of a behaviour succeeded
C10_Witness ==
  /\ last.ev = "success"
  /\ last.rid = 2
  /\ OkTrueObject(last.body)

Restored == [disabled |-> FALSE, content |-> btnSnapshot]
Busy == [disabled |-> TRUE, content |-> Pending]

\* C12: the rejection branch restores the submit control and shows the
\* fallback-email alert, and leaves every control's value and flags and the
\* visibility of the success message as they were.
C12_RejectionFrame ==
  [][last'.ev = "rejection" =>
       /\ submitBtn' = Restored
       /\ last'.alert = RejectionAlert
       /\ field' = field
       /\ successHidden' = successHidden]_vars

\* a rejection arrived while an earlier success message was visible, with a
\* value entered and a control flagged in the meantime
C12_Witness ==
  /\ last.ev = "rejection"
  /\ ~successHidden
  /\ field["cbusiness"].value # <<>>
  /\ \E f \in Required : field[f].isError

\* C13: when the request itself fails the submit control is restored, the
\* connectivity alert is shown and differs from the rejection alert, the
\* success message is not revealed and no control's value is cleared.
C13_NetworkFailureFrame ==
  [][(last'.ev = "failure" /\ last'.body = NoBody) =>
       /\ submitBtn' = Restored
       /\ last'.alert = NetworkAlert
       /\ last'.alert # RejectionAlert
       /\ successHidden' = successHidden
       /\ \A f \in Ids : field'[f].value = field[f].value]_vars

\* a request failed with the success message hidden and the values kept
C13_Witness ==
  /\ last.ev = "failure"
  /\ last.body = NoBody
  /\ successHidden
  /\ \A f \in Required : field[f].value # <<>>

\* C14: with submit events delivered only while the submit control is
\* enabled, at most one request is in flight, and the submit control is
\* disabled with the pending text exactly while one is, restored otherwise.
C14_OneInFlight ==
  /\ Cardinality({r \in Requests : InFlight(r)}) <= 1
  /\ (\E r \in Requests : InFlight(r)) => submitBtn = Busy
  /\ ~(\E r \in Requests : InFlight(r)) => submitBtn = Restored

\* the second request of a behaviour is in flight, its response being read
C14_Witness ==
  /\ req[1].st = "done"
  /\ req[2].st = "reading"
  /\ submitBtn = Busy

\* C17: for every required control the error class and aria-invalid are both
\* present or both absent, and a flagged control holds a value that fails
\* validation.
C17_FlagsAgreeAndMeanInvalid ==
  \A f \in Required :
    /\ field[f].isError = field[f].ariaInvalid
    /\ field[f].isError => FailsIn(field, f)

\* an input cleared the flag of the name control, which now holds a valid
\* value, while the email control is still flagged for a value without '@'
C17_Witness ==
  /\ last.ev = "input"
  /\ last.pre
  /\ ~FailsIn(field, "cname")
  /\ ~field["cname"].isError
  /\ field["cemail"].isError
  /\ field["cemail"].ariaInvalid
  /\ field["cemail"].value = <<"a">>
  /\ field["cdesc"].isError

\* C18: an input event on a required control removes that control's flags
\* whether or not the new value is valid and changes no other control, nor
\* the submit control, nor the success message; a blur event on a required
\* control flags it exactly when its value fails and changes no other control.
C18_InputClearsBlurValidates ==
  [][/\ last'.ev = "input" =>
          \E f \in Ids :
            /\ field'[f].value # field[f].value
            /\ f \in Required => (~field'[f].isError /\ ~field'[f].ariaInvalid)
            /\ \A g \in Ids \ {f} : field'[g] = field[g]
            /\ submitBtn' = submitBtn
            /\ successHidden' = successHidden
     /\ last'.ev = "blur" =>
          LET f == last'.fld
          IN  /\ field'[f].value = field[f].value
              /\ field'[f].isError = FailsIn(field, f)
              /\ field'[f].ariaInvalid = FailsIn(field, f)
              /\ \A g \in Ids \ {f} : field'[g] = field[g]
              /\ submitBtn' = submitBtn
              /\ successHidden' = successHidden]_vars

\* an input on the flagged email control left an invalid value unflagged and
\* the flags of the two other required controls in place
C18_Witness ==
  /\ last.ev = "input"
  /\ last.pre
  /\ field["cemail"].value = <<"a">>
  /\ ~field["cemail"].isError
  /\ field["cname"].isError
  /\ field["cdesc"].isError

\* C19: the success message is visible only while an auto-hide timer is
\* pending; only the success branch makes it visible and only a timer hides it.
C19_VisibleOnlyWhileTimerPending ==
  /\ [](~successHidden => timers # <<>>)
  /\ [][/\ (successHidden /\ ~successHidden') => last'.ev = "success"
        /\ (~successHidden /\ successHidden') => last'.ev = "timer"]_vars

\* a second success made the message visible again after the first timer had
\* hidden it, and its own timer is pending
C19_Witness ==
  /\ last.ev = "success"
  /\ last.rid = 2
  /\ ~successHidden
  /\ timers = <<2>>

TimerPending(r) == \E i \in 1..Len(timers) : timers[i] = r

\* C16 as stated: after a success the message stays visible until the timer
\* set by that same success fires, also when an earlier success's timer is
\* still pending.
C16_VisibleUntilOwnTimer ==
  \A r \in Requests : TimerPending(r) => ~successHidden

\* C16 as amended: a success makes the message visible and queues its own
\* timer behind the pending ones; the message then stays visible until the
\* oldest pending timer fires, whichever success set it.
C16_VisibleUntilOldestTimer ==
  [][/\ last'.ev = "success" =>
          (~successHidden' /\ timers' = Append(timers, last'.rid))
     /\ (~successHidden /\ successHidden') =>
          /\ last'.ev = "timer"
          /\ timers # <<>>
          /\ last'.rid = Head(timers)
          /\ timers' = Tail(timers)]_vars

\* the timer of the first success has hidden the message of the second, whose
\* own timer is still pending
C16_Witness ==
  /\ last.ev = "timer"
  /\ last.rid = 1
  /\ timers = <<2>>
  /\ successHidden

\* C11: every success sets exactly one auto-hide timer, a pending timer goes
\* away only by firing, and every pending timer eventually fires and hides
\* the success message, whatever happens in between.
C11_TimerAlwaysFires ==
  /\ [][last'.ev = "success" => timers' = Append(timers, last'.rid)]_vars
  /\ [][\A r \in Requests :
          (TimerPending(r) /\ ~(\E i \in 1..Len(timers') : timers'[i] = r))
            => (last'.ev = "timer" /\ last'.rid = r /\ successHidden')]_vars
  /\ \A r \in Requests :
       TimerPending(r) ~> (last.ev = "timer" /\ last.rid = r /\ successHidden)

\* the timer of the first success fired while a second request was in flight
C11_Witness ==
  /\ last.ev = "timer"
  /\ last.rid = 1
  /\ successHidden
  /\ InFlight(2)

Idle == ~(\E r \in Requests : InFlight(r))

\* C15: a request is issued only by a valid submit from Idle and only an
\* outcome branch returns to Idle; with every issued request completing the
\* controller always returns to Idle, and whenever it is Idle the submit
\* control is enabled with the content it had at page load.
C15_ReturnsToIdleRestored ==
  /\ [](Idle => submitBtn = Restored)
  /\ [][/\ (Idle /\ ~Idle') => (last'.ev = "submit" /\ last'.ret)
        /\ (~Idle /\ Idle') => last'.ev \in Outcomes
        /\ last'.ev = "submit" => Idle]_vars
  /\ ~Idle ~> Idle

\* Idle again after two full submission cycles
C15_Witness ==
  /\ req[1].st = "done"
  /\ req[2].st = "done"
  /\ last.ev \in Outcomes
  /\ last.rid = 2
  /\ submitBtn = Restored

NavConsistent ==
  /\ nav.navOpen = nav.toggleOpen
  /\ nav.navOpen = (nav.ariaExpanded = "true")
  /\ nav.navOpen = (nav.overflow = "hidden")

\* C20: the nav has the open class exactly when the toggle has it,
\* aria-expanded is 'true' and body scrolling is locked; a click on the toggle
\* flips the state exactly once; Escape, a click on a nav link and a click
\* outside the navigation leave the nav closed.
C20_NavConsistent ==
  /\ []NavConsistent
  /\ [][/\ (last'.ev = "click" /\ last'.fld = "toggle") => nav'.navOpen = ~nav.navOpen
        /\ (last'.ev = "click" /\ last'.fld \in {"link", "outside"}) => ~nav'.navOpen
        /\ (last'.ev = "keydown" /\ last'.fld = "Escape") => ~nav'.navOpen]_vars

\* a click on the toggle opened the closed nav
C20_Witness ==
  /\ last.ev = "click"
  /\ last.fld = "toggle"
  /\ ~last.pre
  /\ nav.navOpen
  /\ nav.toggleOpen
  /\ nav.ariaExpanded = "true"
  /\ nav.overflow = "hidden"
====
